---- MODULE Spec2Model ----
(***************************************************************************)
(* Model of the numerical-methods scripts avaliacao1.py (root finding:     *)
(* eval_func, eval_func_derivative, relative_error, bisection_method,      *)
(* fixed_point_method, newton_raphson_method) and avaliacao2.py            *)
(* (quadrature: trapezoidal_rule, simpsons_one_third_rule, and the main    *)
(* loop with get_user_input and get_input).                                *)
(*                                                                         *)
(* Python floats are modelled as exact rationals <<numerator, denominator>>*)
(* in lowest terms with a positive denominator.  A function string is the  *)
(* sequence of its tokens; str.replace and eval act on that sequence.      *)
(***************************************************************************)
EXTENDS Integers, Sequences, FiniteSets, TLC

(***************************************************************************)
(* Rational arithmetic (Python float arithmetic, without rounding).        *)
(***************************************************************************)
RECURSIVE Gcd(_, _)
Gcd(p, q) == IF q = 0 THEN p ELSE Gcd(q, p % q)

IAbs(k) == IF k < 0 THEN -k ELSE k

RNorm(p, q) ==
    LET s == IF q < 0 THEN -1 ELSE 1
        d == Gcd(IAbs(p), IAbs(q))
    IN  <<(s * p) \div d, (s * q) \div d>>

Rat(k) == <<k, 1>>
Zero == Rat(0)
\* sums and comparisons over the least common denominator, products after
\* cross-cancellation: intermediate values stay as small as the result allows
RAdd(r, s) ==
    LET g == Gcd(r[2], s[2])
    IN  RNorm(r[1] * (s[2] \div g) + s[1] * (r[2] \div g), (r[2] \div g) * s[2])
RNeg(r) == <<-r[1], r[2]>>
RSub(r, s) == RAdd(r, RNeg(s))
RMul(r, s) ==
    LET g1 == Gcd(IAbs(r[1]), s[2])
        g2 == Gcd(IAbs(s[1]), r[2])
    IN  RNorm((r[1] \div g1) * (s[1] \div g2), (r[2] \div g2) * (s[2] \div g1))
\* r / s for s # 0 (callers test for the ZeroDivisionError case first)
RDiv(r, s) == RMul(r, IF s[1] < 0 THEN <<-s[2], -s[1]>> ELSE <<s[2], s[1]>>)
RAbs(r) == <<IAbs(r[1]), r[2]>>
RLt(r, s) ==
    LET g == Gcd(r[2], s[2])
    IN  r[1] * (s[2] \div g) < s[1] * (r[2] \div g)
RIsZero(r) == r[1] = 0

RECURSIVE RPow(_, _)
RPow(r, k) == IF k = 0 THEN Rat(1) ELSE RMul(r, RPow(r, k - 1))

RECURSIVE Pow2(_)
Pow2(k) == IF k = 0 THEN 1 ELSE 2 * Pow2(k - 1)

(***************************************************************************)
(* Python's Optional[float]: None is the empty tuple, a value x is <<x>>.  *)
(***************************************************************************)
None == <<>>
Some(r) == <<r>>

(***************************************************************************)
(* Function strings, as token sequences, and Python's eval on them.        *)
(***************************************************************************)
F_x2m3 == <<"x", "**", "2", "-", "3">>      \* "x**2 - 3"
F_half == <<"x", "/", "2", "+", "1">>       \* "x/2 + 1"
F_xm1  == <<"x", "-", "1">>                 \* "x - 1"
F_2xm3 == <<"2", "*", "x", "-", "3">>       \* "2*x - 3"
F_x2   == <<"x", "**", "2">>                \* "x**2"
F_3    == <<"3">>                           \* "3"

NumVal(tok) ==
    CASE tok = "0" -> Rat(0)
      [] tok = "1" -> Rat(1)
      [] tok = "2" -> Rat(2)
      [] tok = "3" -> Rat(3)
      [] tok = "4" -> Rat(4)

\* str(k) for the small non-negative ints the code formats
Str(k) ==
    CASE k = 0 -> "0"
      [] k = 1 -> "1"
      [] k = 2 -> "2"
      [] k = 3 -> "3"
      [] k = 4 -> "4"

\* s.replace(old, new): every occurrence of the token old becomes new
Replace(s, old, new) ==
    [j \in 1..Len(s) |-> IF s[j] = old THEN new ELSE s[j]]

\* the last position of s holding a token of ops, 0 when there is none
LastOf(s, ops) ==
    LET ps == {j \in 1..Len(s) : s[j] \in ops}
    IN  IF ps = {} THEN 0 ELSE CHOOSE j \in ps : \A q \in ps : q <= j

FirstOf(s, ops) ==
    LET ps == {j \in 1..Len(s) : s[j] \in ops}
    IN  IF ps = {} THEN 0 ELSE CHOOSE j \in ps : \A q \in ps : j <= q

\* a name or a literal; env is the binding of x (None when x is not bound)
EvalAtom(tok, env) == IF tok = "x" THEN env[1] ELSE NumVal(tok)

\* atom ['**' power], right associative, integer literal exponents
RECURSIVE EvalPower(_, _)
EvalPower(s, env) ==
    LET p == FirstOf(s, {"**"})
    IN  IF p = 0 THEN EvalAtom(s[1], env)
        ELSE RPow(EvalAtom(s[1], env),
                  EvalPower(SubSeq(s, p + 1, Len(s)), env)[1])

\* power (('*' | '/') power)*, left associative
RECURSIVE EvalTerm(_, _)
EvalTerm(s, env) ==
    LET p == LastOf(s, {"*", "/"})
    IN  IF p = 0 THEN EvalPower(s, env)
        ELSE LET l == EvalTerm(SubSeq(s, 1, p - 1), env)
                 r == EvalPower(SubSeq(s, p + 1, Len(s)), env)
             IN  IF s[p] = "*" THEN RMul(l, r) ELSE RDiv(l, r)

\* term (('+' | '-') term)*, left associative: Python's eval of the string
RECURSIVE EvalExpr(_, _)
EvalExpr(s, env) ==
    LET p == LastOf(s, {"+", "-"})
    IN  IF p = 0 THEN EvalTerm(s, env)
        ELSE LET l == EvalExpr(SubSeq(s, 1, p - 1), env)
                 r == EvalTerm(SubSeq(s, p + 1, Len(s)), env)
             IN  IF s[p] = "+" THEN RAdd(l, r) ELSE RSub(l, r)

\* eval(f"lambda x: {s}")(v): the user's function at the argument v
Lambda(s, v) == EvalExpr(s, Some(v))

\* eval_func(func_str, x)[0]
eval_func(func_str, x) ==
    IF x # None
    THEN EvalExpr(Replace(func_str, "x", Str(1)), None)
    ELSE Rat(-1)

\* the step of eval_func_derivative's default argument h = 1e-5
HDenominator == 100000
DefaultH == <<1, HDenominator>>

\* eval_func_derivative(func_str, x, h)[0]
eval_func_derivative(func_str, x, h) ==
    LET f_x_plus_h  == eval_func(func_str, Some(RAdd(x, h)))
        f_x_minus_h == eval_func(func_str, Some(RSub(x, h)))
    IN  RDiv(RSub(f_x_plus_h, f_x_minus_h), RMul(Rat(2), h))


\* ceil(log2(p / q)) for p, q > 0: the least k with 2^k >= p / q
RECURSIVE CeilLog2Up(_, _, _)
CeilLog2Up(p, q, k) == IF q * Pow2(k) >= p THEN k ELSE CeilLog2Up(p, q, k + 1)

RECURSIVE CeilLog2Down(_, _, _)
CeilLog2Down(p, q, k) ==
    IF p * Pow2(k + 1) <= q THEN CeilLog2Down(p, q, k + 1) ELSE -k

CeilLog2(r) ==
    IF r[1] > r[2] THEN CeilLog2Up(r[1], r[2], 0) ELSE CeilLog2Down(r[1], r[2], 0)

(***************************************************************************)
(* Bounds of the model and the inputs drawn from them.                     *)
(***************************************************************************)
MaxPoint == 3      \* bounds, guesses and arguments are the integers 0..MaxPoint
MaxIter == 3       \* max_iterations is drawn from 0..MaxIter
MaxN == 4          \* the number of intervals n is drawn from -1..MaxN
MaxRounds == 2     \* passes of the integration script's main loop
MaxRetries == 1    \* invalid answers to one prompt

Points == {Rat(k) : k \in 0..MaxPoint}
Tolerances == {<<1, 2>>, Rat(1), Rat(2)}
Funcs == {F_x2m3, F_half, F_xm1, F_2xm3, F_x2, F_3}
\* Newton-Raphson is run on the functions of degree <= 1: their values at
\* current_guess +/- 1e-5 stay within TLC's 32-bit integers
NewtonFuncs == {F_half, F_xm1, F_2xm3, F_3}
Methods == {"eval_func", "relative_error", "bisection_method",
            "fixed_point_method", "newton_raphson_method",
            "trapezoidal_rule", "simpsons_one_third_rule", "main"}
RootFinders == {"bisection_method", "fixed_point_method", "newton_raphson_method"}
Quadratures == {"trapezoidal_rule", "simpsons_one_third_rule"}

VARIABLES
    method,            \* the function being called
    pc,                \* "start", "loop", "loop2", "done" (returned), "raised"
    f_func_str,        \* func_str / f_func_str / the body of the lambda f
    g_func_str,
    x,                 \* eval_func's x (Optional)
    approx_value, true_value,
    lower_bound, upper_bound, tolerance, initial_guess,
    max_iterations_arg,  \* max_iterations as the caller passed it
    max_iterations,      \* the local max_iterations (bisection reassigns it)
    stop_reason,
    current_lower, current_upper, current_bisection,
    current_guess, next_guess,
    i,                 \* the loop variable; 0 while it is unbound
    a, b, n, h, integral,
    evals,             \* the arguments f was called with, in order (quadrature)
    midpoints,         \* the midpoints bisection computed, in order
    result,            \* the returned value, None until the call returns
    error,             \* the exception raised, "" while there is none
    input_prompts,     \* get_user_input's dict of prompts, key -> entry
    user_inputs,       \* get_user_input's user_inputs / the dict main receives
    key,               \* the position in KeyOrder of the prompt being asked
    retries,           \* invalid answers given to the current prompt
    rounds,            \* passes of main's while loop begun
    done               \* main's done flag

vars == <<method, pc, f_func_str, g_func_str, x, approx_value, true_value,
          lower_bound, upper_bound, tolerance, initial_guess,
          max_iterations_arg, max_iterations, stop_reason,
          current_lower, current_upper, current_bisection,
          current_guess, next_guess, i, a, b, n, h, integral,
          evals, midpoints, result, error,
          input_prompts, user_inputs, key, retries, rounds, done>>

args == <<method, f_func_str, g_func_str, x, approx_value, true_value,
          lower_bound, upper_bound, tolerance, initial_guess,
          max_iterations_arg, a, b, n>>

rootLocals == <<max_iterations, stop_reason, current_lower, current_upper,
                current_bisection, current_guess, next_guess, i, midpoints>>

quadLocals == <<h, integral, evals>>

script == <<input_prompts, user_inputs, key, retries, rounds, done>>

\* avaliacao2.py: the keys of input_prompts in the dict's order, and main's
\* default_values
KeyOrder == <<"f", "a", "b", "n">>
Keys == {"f", "a", "b", "n"}
default_values == [f |-> F_x2, a |-> Rat(0), b |-> Rat(1), n |-> 10]

\* an entry of input_prompts: the list [prompt, type, patterns[key]] it starts
\* as, or the user's input that replaces it
PromptList(dflt) == <<"list", dflt>>
Entered(value) == <<"value", value>>
InitialPrompts(patterns) == [k \in Keys |-> PromptList(patterns[k])]

\* eval(f"lambda x: {s}"): a callable with the body s
MakeLambda(s) == <<"lambda", s>>

\* the empty dict
EmptyDict == <<>>

Pick(m, ms, S, dflt) == IF m \in ms THEN S ELSE {dflt}

Init ==
    /\ method \in Methods
    /\ pc = "start"
    /\ f_func_str \in
           IF method = "newton_raphson_method" THEN NewtonFuncs
           ELSE Pick(method, Methods \ {"relative_error", "main"}, Funcs, <<>>)
    /\ g_func_str \in Pick(method, {"fixed_point_method"}, Funcs, <<>>)
    /\ x \in Pick(method, {"eval_func"}, {None} \cup {Some(p) : p \in Points}, None)
    /\ approx_value \in Pick(method, {"relative_error"}, Points, Zero)
    /\ true_value \in Pick(method, {"relative_error"}, Points, Zero)
    /\ lower_bound \in Pick(method, {"bisection_method"}, Points, Zero)
    /\ upper_bound \in Pick(method, {"bisection_method"}, Points, Zero)
    /\ tolerance \in Pick(method, RootFinders, Tolerances, Zero)
    /\ initial_guess \in Pick(method, RootFinders \ {"bisection_method"}, Points, Zero)
    /\ max_iterations_arg \in Pick(method, RootFinders, 0..MaxIter, 0)
    /\ max_iterations = max_iterations_arg
    /\ stop_reason = ""
    /\ current_lower = Zero /\ current_upper = Zero /\ current_bisection = Zero
    /\ current_guess = Zero /\ next_guess = Zero
    /\ i = 0
    /\ a \in Pick(method, Quadratures, Points, Zero)
    /\ b \in Pick(method, Quadratures, Points, Zero)
    /\ n \in Pick(method, Quadratures, (-1)..MaxN, 0)
    /\ h = Zero /\ integral = Zero
    /\ evals = <<>> /\ midpoints = <<>>
    /\ result = None
    /\ error = ""
    /\ input_prompts = InitialPrompts(default_values)
    /\ user_inputs = EmptyDict
    /\ key = 1
    /\ retries = 0
    /\ rounds = 0
    /\ done = FALSE

Return(value) ==
    /\ pc' = "done"
    /\ result' = value
    /\ error' = ""

Raise(exc) ==
    /\ pc' = "raised"
    /\ result' = None
    /\ error' = exc

(***************************************************************************)
(* avaliacao1.py: eval_func and relative_error as calls of their own.      *)
(***************************************************************************)
EvalFuncCall ==
    /\ method = "eval_func" /\ pc = "start"
    /\ Return(<<eval_func(f_func_str, x)>>)
    /\ UNCHANGED <<args, script, rootLocals, quadLocals>>

\* abs((approx_value - true_value) / true_value) on floats
RelativeErrorCall ==
    /\ method = "relative_error" /\ pc = "start"
    /\ IF RIsZero(true_value)
       THEN Raise("ZeroDivisionError")
       ELSE Return(<<RAbs(RDiv(RSub(approx_value, true_value), true_value))>>)
    /\ UNCHANGED <<args, script, rootLocals, quadLocals>>


(***************************************************************************)
(* for i in range(start, stop): with k the last value i took (start - 1    *)
(* before the first pass), the loop runs another pass iff k + 1 < stop.    *)
(***************************************************************************)
\* a range that takes its stop value too
RangeHasNextInclusive(k, stop) == k + 1 <= stop

RangeHasNext(k, stop) == k + 1 < stop

(***************************************************************************)
(* avaliacao1.py: bisection_method.                                        *)
(***************************************************************************)
\* ceil(log2(abs(upper_bound - lower_bound) / tolerance))
BisectionIterations(lo, up, tol) == CeilLog2(RDiv(RAbs(RSub(up, lo)), tol))

\* a bisection that never tightens the caller's max_iterations
BisectionMaxIterationsUncapped(bisection_iterations, max_it) == max_it

\* the loop bound after lines 104-108
BisectionMaxIterations(bisection_iterations, max_it) ==
    IF bisection_iterations < max_it THEN bisection_iterations ELSE max_it

\* the stop reason recorded ahead of the loop by lines 104-108
BisectionStopReason(bisection_iterations, max_it) ==
    IF bisection_iterations < max_it
    THEN "Tolerance reached"
    ELSE "Maximum iterations reached"

\* lines 99-108; log2(0) is a ValueError
BisectionStart ==
    /\ method = "bisection_method" /\ pc = "start"
    /\ current_lower' = lower_bound
    /\ current_upper' = upper_bound
    /\ IF lower_bound = upper_bound
       THEN /\ Raise("ValueError")
            /\ UNCHANGED <<max_iterations, stop_reason>>
       ELSE LET bisection_iterations ==
                    BisectionIterations(lower_bound, upper_bound, tolerance)
            IN  /\ max_iterations' =
                       BisectionMaxIterations(bisection_iterations, max_iterations)
                /\ stop_reason' =
                       BisectionStopReason(bisection_iterations, max_iterations)
                /\ pc' = "loop"
                /\ UNCHANGED <<result, error>>
    /\ UNCHANGED <<args, script, quadLocals, current_bisection, current_guess,
                   next_guess, i, midpoints>>

\* one pass of the loop of lines 110-122
BisectionIterate ==
    /\ method = "bisection_method" /\ pc = "loop"
    /\ RangeHasNext(i, max_iterations + 1)
    /\ LET mid == RDiv(RAdd(current_lower, current_upper), Rat(2))
           f_of_bisection == eval_func(f_func_str, Some(mid))
           f_of_lower == eval_func(f_func_str, Some(current_lower))
       IN  /\ i' = i + 1
           /\ current_bisection' = mid
           /\ midpoints' = Append(midpoints, mid)
           /\ IF RIsZero(f_of_bisection)
              THEN /\ Return(<<mid, i + 1, "Exact root found">>)
                   /\ UNCHANGED <<current_lower, current_upper>>
              ELSE IF RIsZero(f_of_lower)
              THEN /\ Return(<<current_lower, i + 1, "Exact root found">>)
                   /\ UNCHANGED <<current_lower, current_upper>>
              ELSE IF RLt(RMul(f_of_lower, f_of_bisection), Zero)
              THEN /\ current_upper' = mid
                   /\ UNCHANGED <<current_lower, pc, result, error>>
              ELSE /\ current_lower' = mid
                   /\ UNCHANGED <<current_upper, pc, result, error>>
    /\ UNCHANGED <<args, script, quadLocals, max_iterations, stop_reason,
                   current_guess, next_guess>>

\* line 124; current_bisection and i are unbound when the loop ran no pass
BisectionReturn ==
    /\ method = "bisection_method" /\ pc = "loop"
    /\ ~RangeHasNext(i, max_iterations + 1)
    /\ IF i = 0
       THEN Raise("UnboundLocalError")
       ELSE Return(<<current_bisection, i, stop_reason>>)
    /\ UNCHANGED <<args, script, rootLocals, quadLocals>>

(***************************************************************************)
(* avaliacao1.py: fixed_point_method.                                      *)
(***************************************************************************)
\* line 150
FixedPointStart ==
    /\ method = "fixed_point_method" /\ pc = "start"
    /\ current_guess' = initial_guess
    /\ pc' = "loop"
    /\ UNCHANGED <<args, script, quadLocals, max_iterations, stop_reason, current_lower,
                   current_upper, current_bisection, next_guess, i, midpoints,
                   result, error>>

\* the stop test of lines 156-159: the reason to return with, "" to go on
FixedPointStop(next, current, func_value, tol) ==
    IF RLt(RAbs(RSub(next, current)), tol) THEN "Converged to the fixed point"
    ELSE IF RLt(RAbs(func_value), tol) THEN "Approximate root found"
    ELSE ""

\* one pass of the loop of lines 152-161
FixedPointIterate ==
    /\ method = "fixed_point_method" /\ pc = "loop"
    /\ RangeHasNext(i, max_iterations + 1)
    /\ LET next == eval_func(g_func_str, Some(current_guess))
           func_value == eval_func(f_func_str, Some(next))
           reason == FixedPointStop(next, current_guess, func_value, tolerance)
       IN  /\ i' = i + 1
           /\ next_guess' = next
           /\ IF reason # ""
              THEN /\ Return(<<next, i + 1, reason>>)
                   /\ UNCHANGED current_guess
              ELSE /\ current_guess' = next
                   /\ UNCHANGED <<pc, result, error>>
    /\ UNCHANGED <<args, script, quadLocals, max_iterations, stop_reason, current_lower,
                   current_upper, current_bisection, midpoints>>

\* line 163; next_guess and i are unbound when the loop ran no pass
FixedPointReturn ==
    /\ method = "fixed_point_method" /\ pc = "loop"
    /\ ~RangeHasNext(i, max_iterations + 1)
    /\ IF i = 0
       THEN Raise("UnboundLocalError")
       ELSE Return(<<next_guess, i, "Maximum iterations reached">>)
    /\ UNCHANGED <<args, script, rootLocals, quadLocals>>

(***************************************************************************)
(* avaliacao1.py: newton_raphson_method.                                   *)
(***************************************************************************)
\* line 184
NewtonStart ==
    /\ method = "newton_raphson_method" /\ pc = "start"
    /\ current_guess' = initial_guess
    /\ pc' = "loop"
    /\ UNCHANGED <<args, script, quadLocals, max_iterations, stop_reason, current_lower,
                   current_upper, current_bisection, next_guess, i, midpoints,
                   result, error>>

\* one pass of the loop of lines 186-196
NewtonIterate ==
    /\ method = "newton_raphson_method" /\ pc = "loop"
    /\ RangeHasNext(i, max_iterations + 1)
    /\ LET func_value == eval_func(f_func_str, Some(current_guess))
           derivative_value ==
               eval_func_derivative(f_func_str, current_guess, DefaultH)
       IN  /\ i' = i + 1
           /\ IF RIsZero(derivative_value)
              THEN /\ Return(<<current_guess, i + 1,
                               "Derivative is zero, method fails">>)
                   /\ UNCHANGED <<current_guess, next_guess>>
              ELSE LET next == RSub(current_guess,
                                    RDiv(func_value, derivative_value))
                   IN  /\ next_guess' = next
                       /\ IF RLt(RAbs(RSub(next, current_guess)), tolerance)
                          THEN /\ Return(<<next, i + 1, "Converged to the root">>)
                               /\ UNCHANGED current_guess
                          ELSE /\ current_guess' = next
                               /\ UNCHANGED <<pc, result, error>>
    /\ UNCHANGED <<args, script, quadLocals, max_iterations, stop_reason, current_lower,
                   current_upper, current_bisection, midpoints>>

\* line 198; next_guess and i are unbound when the loop ran no pass
NewtonReturn ==
    /\ method = "newton_raphson_method" /\ pc = "loop"
    /\ ~RangeHasNext(i, max_iterations + 1)
    /\ IF i = 0
       THEN Raise("UnboundLocalError")
       ELSE Return(<<next_guess, i, "Maximum iterations reached">>)
    /\ UNCHANGED <<args, script, rootLocals, quadLocals>>


(***************************************************************************)
(* avaliacao2.py: trapezoidal_rule.  f is the lambda built from the        *)
(* function string, so it is evaluated at its argument.                    *)
(***************************************************************************)
\* for i in range(start, stop, step), k the last value taken (start - step first)
RangeHasNextStep(k, step, stop) == k + step < stop

\* the node a + i * h
Node(lo, step, k) == RAdd(lo, RMul(Rat(k), step))

\* lines 19-20; (b - a) / 0 is a ZeroDivisionError
TrapezoidalStart ==
    /\ method = "trapezoidal_rule" /\ pc = "start"
    /\ IF n = 0
       THEN /\ Raise("ZeroDivisionError")
            /\ UNCHANGED quadLocals
       ELSE /\ h' = RDiv(RSub(b, a), Rat(n))
            /\ integral' = RDiv(RAdd(Lambda(f_func_str, a), Lambda(f_func_str, b)),
                                Rat(2))
            /\ evals' = <<a, b>>
            /\ pc' = "loop"
            /\ UNCHANGED <<result, error>>
    /\ UNCHANGED <<args, script, rootLocals>>

\* one pass of the loop of lines 21-22
TrapezoidalIterate ==
    /\ method = "trapezoidal_rule" /\ pc = "loop"
    /\ RangeHasNext(i, n)
    /\ i' = i + 1
    /\ integral' = RAdd(integral, Lambda(f_func_str, Node(a, h, i + 1)))
    /\ evals' = Append(evals, Node(a, h, i + 1))
    /\ UNCHANGED <<args, script, max_iterations, stop_reason, current_lower, current_upper,
                   current_bisection, current_guess, next_guess, midpoints,
                   h, pc, result, error>>

\* lines 23-24
TrapezoidalReturn ==
    /\ method = "trapezoidal_rule" /\ pc = "loop"
    /\ ~RangeHasNext(i, n)
    /\ integral' = RMul(integral, h)
    /\ Return(<<RMul(integral, h)>>)
    /\ UNCHANGED <<args, script, rootLocals, h, evals>>

(***************************************************************************)
(* avaliacao2.py: simpsons_one_third_rule.                                 *)
(***************************************************************************)
\* a parity test that lets negative n through
SimpsonRejectsPositiveOdd(k) == k > 0 /\ k % 2 # 0

\* the test of line 42 (Python's %: the result has the sign of the divisor)
SimpsonRejects(k) == k % 2 # 0

\* the error of line 43
NotEven == "ValueError: Number of intervals (n) must be even for Simpson's 1/3 rule."

\* the terms added by lines 48 and 50
SimpsonOddTerm(fv) == RMul(Rat(4), fv)
\* the even nodes weighted like the odd ones
SimpsonEvenTermAsOdd(fv) == RMul(Rat(4), fv)
SimpsonEvenTerm(fv) == RMul(Rat(2), fv)

\* lines 42-46
SimpsonStart ==
    /\ method = "simpsons_one_third_rule" /\ pc = "start"
    /\ IF SimpsonRejects(n)
       THEN /\ Raise(NotEven)
            /\ UNCHANGED quadLocals
       ELSE IF n = 0
       THEN /\ Raise("ZeroDivisionError")
            /\ UNCHANGED quadLocals
       ELSE /\ h' = RDiv(RSub(b, a), Rat(n))
            /\ integral' = RAdd(Lambda(f_func_str, a), Lambda(f_func_str, b))
            /\ evals' = <<a, b>>
            /\ pc' = "loop"
            /\ UNCHANGED <<result, error>>
    /\ i' = -1
    /\ UNCHANGED <<args, script, max_iterations, stop_reason, current_lower, current_upper,
                   current_bisection, current_guess, next_guess, midpoints>>

\* one pass of the loop of lines 47-48: for i in range(1, n, 2)
SimpsonOddIterate ==
    /\ method = "simpsons_one_third_rule" /\ pc = "loop"
    /\ RangeHasNextStep(i, 2, n)
    /\ i' = i + 2
    /\ integral' = RAdd(integral,
                        SimpsonOddTerm(Lambda(f_func_str, Node(a, h, i + 2))))
    /\ evals' = Append(evals, Node(a, h, i + 2))
    /\ UNCHANGED <<args, script, max_iterations, stop_reason, current_lower, current_upper,
                   current_bisection, current_guess, next_guess, midpoints,
                   h, pc, result, error>>

\* the first loop is exhausted: on to for i in range(2, n - 1, 2)
SimpsonOddExit ==
    /\ method = "simpsons_one_third_rule" /\ pc = "loop"
    /\ ~RangeHasNextStep(i, 2, n)
    /\ pc' = "loop2"
    /\ i' = 0
    /\ UNCHANGED <<args, script, max_iterations, stop_reason, current_lower, current_upper,
                   current_bisection, current_guess, next_guess, midpoints,
                   quadLocals, result, error>>

\* one pass of the loop of lines 49-50
SimpsonEvenIterate ==
    /\ method = "simpsons_one_third_rule" /\ pc = "loop2"
    /\ RangeHasNextStep(i, 2, n - 1)
    /\ i' = i + 2
    /\ integral' = RAdd(integral,
                        SimpsonEvenTerm(Lambda(f_func_str, Node(a, h, i + 2))))
    /\ evals' = Append(evals, Node(a, h, i + 2))
    /\ UNCHANGED <<args, script, max_iterations, stop_reason, current_lower, current_upper,
                   current_bisection, current_guess, next_guess, midpoints,
                   h, pc, result, error>>

\* lines 51-52
SimpsonReturn ==
    /\ method = "simpsons_one_third_rule" /\ pc = "loop2"
    /\ ~RangeHasNextStep(i, 2, n - 1)
    /\ integral' = RMul(integral, RDiv(h, Rat(3)))
    /\ Return(<<RMul(integral, RDiv(h, Rat(3)))>>)
    /\ UNCHANGED <<args, script, rootLocals, h, evals>>

(***************************************************************************)
(* avaliacao2.py: the main loop (lines 201-215) with get_user_input        *)
(* (lines 75-123) and get_input (lines 55-72).                             *)
(***************************************************************************)
\* what get_input can return for the prompt of key k: value_type(user_input)
\* of an answer it accepts; str accepts every answer, the empty one included
EmptyAnswer == <<>>
Answers(k) ==
    CASE k = "f" -> Funcs \cup {EmptyAnswer}
      [] k = "a" -> Points
      [] k = "b" -> Points
      [] k = "n" -> 0..MaxN

\* line 206: main's while loop calls get_user_input(default_values), which
\* builds input_prompts (lines 85-106) and the empty user_inputs (line 112)
MainCallGetUserInput ==
    /\ method = "main" /\ pc \in {"start", "except"}
    /\ ~done
    /\ rounds < MaxRounds
    /\ rounds' = rounds + 1
    /\ input_prompts' = InitialPrompts(default_values)
    /\ user_inputs' = EmptyDict
    /\ key' = 1
    /\ retries' = 0
    /\ pc' = "prompt"
    /\ error' = ""
    /\ UNCHANGED <<args, rootLocals, quadLocals, result, done>>

\* get_input, lines 67-72: float and int raise ValueError on an answer they
\* cannot convert (the empty one included), and the prompt is asked again
GetInputInvalid ==
    /\ method = "main" /\ pc = "prompt"
    /\ key <= Len(KeyOrder)
    /\ KeyOrder[key] # "f"
    /\ retries < MaxRetries
    /\ retries' = retries + 1
    /\ UNCHANGED <<args, rootLocals, quadLocals, pc, result, error,
                   input_prompts, user_inputs, key, rounds, done>>

\* one pass of the loop of lines 113-120, get_input returning user_input
GetUserInputAnswer ==
    /\ method = "main" /\ pc = "prompt"
    /\ key <= Len(KeyOrder)
    /\ \E user_input \in Answers(KeyOrder[key]) :
          IF KeyOrder[key] = "f" /\ user_input = EmptyAnswer
          THEN /\ user_inputs' =
                      [[k \in Keys |-> input_prompts[k][2]]
                          EXCEPT !.f = MakeLambda(input_prompts.f[2])]
               /\ pc' = "returned"
               /\ UNCHANGED <<input_prompts, key>>
          ELSE /\ input_prompts' =
                      [input_prompts EXCEPT ![KeyOrder[key]] = Entered(user_input)]
               /\ key' = key + 1
               /\ UNCHANGED <<user_inputs, pc>>
    /\ retries' = 0
    /\ UNCHANGED <<args, rootLocals, quadLocals, result, error, rounds, done>>

\* lines 122-123 after the loop; user_inputs['f'] on a dict without the key f
\* is a KeyError, which main's except Exception catches (line 214)
GetUserInputFinish ==
    /\ method = "main" /\ pc = "prompt"
    /\ key > Len(KeyOrder)
    /\ IF "f" \in DOMAIN user_inputs
       THEN /\ user_inputs' = [user_inputs EXCEPT !.f = MakeLambda(user_inputs.f)]
            /\ pc' = "returned"
            /\ UNCHANGED error
       ELSE /\ pc' = "except"
            /\ error' = "KeyError: 'f'"
            /\ UNCHANGED user_inputs
    /\ UNCHANGED <<args, rootLocals, quadLocals, result, input_prompts, key,
                   retries, rounds, done>>

\* lines 207-209: execute_methods and plot_integration_methods run both rules
\* on **user_inputs; their exceptions are caught by lines 210-215
MainExecute ==
    /\ method = "main" /\ pc = "returned"
    /\ IF user_inputs.n = 0
       THEN /\ pc' = "except" /\ error' = "ZeroDivisionError"
            /\ UNCHANGED done
       ELSE IF SimpsonRejects(user_inputs.n)
       THEN /\ pc' = "except" /\ error' = NotEven
            /\ UNCHANGED done
       ELSE /\ done' = TRUE
            /\ pc' = "exit"
            /\ UNCHANGED error
    /\ UNCHANGED <<args, rootLocals, quadLocals, result, input_prompts,
                   user_inputs, key, retries, rounds>>

Next ==
    \/ MainCallGetUserInput
    \/ GetInputInvalid
    \/ GetUserInputAnswer
    \/ GetUserInputFinish
    \/ MainExecute
    \/ EvalFuncCall
    \/ RelativeErrorCall
    \/ BisectionStart
    \/ BisectionIterate
    \/ BisectionReturn
    \/ FixedPointStart
    \/ FixedPointIterate
    \/ FixedPointReturn
    \/ NewtonStart
    \/ NewtonIterate
    \/ NewtonReturn
    \/ TrapezoidalStart
    \/ TrapezoidalIterate
    \/ TrapezoidalReturn
    \/ SimpsonStart
    \/ SimpsonOddIterate
    \/ SimpsonOddExit
    \/ SimpsonEvenIterate
    \/ SimpsonReturn

Spec == Init /\ [][Next]_vars


(***************************************************************************)
(* Properties.                                                             *)
(***************************************************************************)
Returned == pc = "done"
Iterations == result[2]
StopReason == result[3]
Width == RAbs(RSub(upper_bound, lower_bound))

\* C1: eval_func(func_str, x) with x given is the user's function at x: it
\* equals f(x), and it tells apart any two points where f differs.
C1_EvalFuncAtArgument ==
    (method = "eval_func" /\ Returned /\ x # None) =>
        /\ result[1] = Lambda(f_func_str, x[1])
        /\ \A x2 \in Points :
               Lambda(f_func_str, x[1]) # Lambda(f_func_str, x2)
                   => result[1] # eval_func(f_func_str, Some(x2))

\* C2: a returned iteration count is at most max_iterations, and for
\* bisection also at most ceil(log2(|upper_bound - lower_bound| / tolerance)),
\* that is k >= 1 and tolerance * 2^(k-1) < |upper_bound - lower_bound|.
C2_IterationsBounded ==
    (method \in RootFinders /\ Returned) =>
        /\ Iterations >= 1
        /\ Iterations <= max_iterations_arg
        /\ method = "bisection_method" =>
               RLt(RMul(tolerance, Rat(Pow2(Iterations - 1))), Width)

\* a bisection that returned after the tolerance bound, tighter than the
\* caller's max_iterations, ran out
C2_Witness ==
    /\ method = "bisection_method" /\ Returned
    /\ StopReason = "Tolerance reached"
    /\ Iterations >= 2
    /\ Iterations < max_iterations_arg

\* the last two midpoints bisection computed differ by less than tolerance
LastMidpointsWithinTolerance ==
    /\ Len(midpoints) >= 2
    /\ RLt(RAbs(RSub(midpoints[Len(midpoints)], midpoints[Len(midpoints) - 1])),
           tolerance)

\* C3: once an iteration k >= 2 leaves |m_k - m_(k-1)| < tolerance, bisection
\* runs no further iteration and does not report "Maximum iterations reached".
C3_ToleranceStopReason ==
    (method = "bisection_method" /\ LastMidpointsWithinTolerance) =>
        /\ pc = "loop" => ~ENABLED BisectionIterate
        /\ Returned => /\ Iterations = Len(midpoints)
                       /\ StopReason # "Maximum iterations reached"

\* C4: a root finder called with tolerance > 0 and max_iterations >= 1 (and,
\* for bisection, lower_bound # upper_bound) never raises.
C4_AlwaysReturns ==
    ( /\ method \in RootFinders
      /\ RLt(Zero, tolerance)
      /\ max_iterations_arg >= 1
      /\ method = "bisection_method" => lower_bound # upper_bound )
        => pc # "raised"


\* (f(v + hh) - f(v - hh)) / (2 hh) of the user's function f
CentralDifference(func_str, v, hh) ==
    RDiv(RSub(Lambda(func_str, RAdd(v, hh)), Lambda(func_str, RSub(v, hh))),
         RMul(Rat(2), hh))

DerivativeZero == "Derivative is zero, method fails"

\* C5: in every Newton-Raphson iteration, with dv the central difference of f
\* at the current estimate: dv = 0 ends the call with the derivative-zero
\* reason at the current estimate, and dv # 0 does not report that reason but
\* sets next to current - f(current) / dv.
C5_DerivativeZeroOnlyWhenZero ==
    [][NewtonIterate =>
          LET dv == CentralDifference(f_func_str, current_guess, DefaultH)
          IN  IF RIsZero(dv)
              THEN /\ pc' = "done"
                   /\ result' = <<current_guess, i + 1, DerivativeZero>>
              ELSE /\ pc' = "done" => result'[3] # DerivativeZero
                   /\ next_guess' =
                          RSub(current_guess,
                               RDiv(Lambda(f_func_str, current_guess), dv))]_vars

\* C6: a fixed-point iteration with next = g(current) returns next with
\* "Converged to the fixed point" when |next - current| < tolerance, with
\* "Approximate root found" when only |f(next)| < tolerance, and goes on
\* otherwise; running out of iterations returns the last next after
\* max_iterations iterations with "Maximum iterations reached".
C6_FixedPointStops ==
    [][ /\ FixedPointIterate =>
              LET next == Lambda(g_func_str, current_guess)
                  converged == RLt(RAbs(RSub(next, current_guess)), tolerance)
                  approximate == RLt(RAbs(Lambda(f_func_str, next)), tolerance)
              IN  IF converged
                  THEN /\ pc' = "done"
                       /\ result' = <<next, i + 1, "Converged to the fixed point">>
                  ELSE IF approximate
                  THEN /\ pc' = "done"
                       /\ result' = <<next, i + 1, "Approximate root found">>
                  ELSE /\ pc' = "loop"
                       /\ next_guess' = next
        /\ (FixedPointReturn /\ pc' = "done") =>
              result' = <<next_guess, max_iterations_arg,
                          "Maximum iterations reached">> ]_vars

\* C7: simpsons_one_third_rule with an odd n raises the "n must be even"
\* error, and f has not been evaluated when it does.
C7_OddNRejected ==
    (method = "simpsons_one_third_rule" /\ n % 2 = 1 /\ pc # "start") =>
        /\ pc = "raised"
        /\ error = NotEven
        /\ evals = <<>>

C7_Witness ==
    /\ method = "simpsons_one_third_rule"
    /\ n % 2 = 1
    /\ pc = "raised"
    /\ error = NotEven

\* the step and the nodes of the partition of [a, b] into n intervals
StepOf == RDiv(RSub(b, a), Rat(n))
NodeOf(k) == RAdd(a, RMul(Rat(k), StepOf))

\* every node a + k h, k in 0..n, is an argument of exactly one call of f
EachNodeEvaluatedOnce ==
    /\ Len(evals) = n + 1
    /\ \A k \in 0..n :
           Cardinality({j \in 1..Len(evals) : evals[j] = NodeOf(k)})
               = Cardinality({m \in 0..n : NodeOf(m) = NodeOf(k)})

SimpsonWeight(k) ==
    IF k = 0 \/ k = n THEN 1 ELSE IF k % 2 = 1 THEN 4 ELSE 2

\* sum over the nodes k..n of weight * f(node)
RECURSIVE SimpsonSum(_)
SimpsonSum(k) ==
    IF k > n THEN Zero
    ELSE RAdd(RMul(Rat(SimpsonWeight(k)), Lambda(f_func_str, NodeOf(k))),
              SimpsonSum(k + 1))

\* C8: for even n >= 2 Simpson's rule returns (h/3) * the sum of f over the
\* nodes a + i h with weights 1, 4, 2, ..., 4, 1, each node evaluated once.
C8_SimpsonFormula ==
    (method = "simpsons_one_third_rule" /\ Returned /\ n >= 2) =>
        /\ n % 2 = 0
        /\ result[1] = RMul(RDiv(StepOf, Rat(3)), SimpsonSum(0))
        /\ EachNodeEvaluatedOnce

C8_Witness ==
    /\ method = "simpsons_one_third_rule" /\ Returned
    /\ n >= 4 /\ a # b
    /\ f_func_str = F_x2m3

\* sum over the interior nodes k..n-1 of f(node)
RECURSIVE InteriorSum(_)
InteriorSum(k) ==
    IF k > n - 1 THEN Zero
    ELSE RAdd(Lambda(f_func_str, NodeOf(k)), InteriorSum(k + 1))

\* C9: for n >= 1 the trapezoidal rule returns
\* h * [(f(a) + f(b)) / 2 + sum of f over the interior nodes], with n + 1
\* evaluations of f: each endpoint and each interior node once.
C9_TrapezoidalFormula ==
    (method = "trapezoidal_rule" /\ Returned /\ n >= 1) =>
        /\ result[1] =
               RMul(StepOf,
                    RAdd(RDiv(RAdd(Lambda(f_func_str, a), Lambda(f_func_str, b)),
                              Rat(2)),
                         InteriorSum(1)))
        /\ EachNodeEvaluatedOnce

C9_Witness ==
    /\ method = "trapezoidal_rule" /\ Returned
    /\ n >= 3 /\ a # b
    /\ f_func_str = F_x2m3

\* +infinity, which no float of the model equals
Infinity == <<1, 0>>

\* C10: relative_error never fails: it is +infinity when the value it divides
\* by is 0, and |approx_value - true_value| / |true_value| otherwise.
C10_RelativeErrorTotal ==
    (method = "relative_error" /\ pc # "start") =>
        /\ Returned
        /\ result[1] = IF RIsZero(true_value) THEN Infinity
                       ELSE RDiv(RAbs(RSub(approx_value, true_value)),
                                 RAbs(true_value))


\* every prompt of this call of get_user_input got a non-empty valid answer
AllEntered == \A k \in Keys : input_prompts[k][1] = "value"

\* C11: when the user answers the four prompts f, a, b, n with non-empty valid
\* values, get_user_input returns the dict of the entered values (f as a
\* callable) instead of failing, and main then reaches done = True unless the
\* rules reject the entered n; the defaults are returned only on an empty
\* answer.
C11_UserInputsReturned ==
    /\ (method = "main" /\ AllEntered /\ pc # "prompt") =>
           /\ error # "KeyError: 'f'"
           /\ pc \in {"returned", "exit"} =>
                  /\ DOMAIN user_inputs = Keys
                  /\ user_inputs.f = MakeLambda(input_prompts.f[2])
                  /\ \A k \in {"a", "b", "n"} : user_inputs[k] = input_prompts[k][2]
           /\ (input_prompts.n[2] # 0 /\ input_prompts.n[2] % 2 = 0) =>
                  /\ pc \in {"returned", "exit"}
                  /\ pc = "exit" => (done /\ rounds = 1)
    /\ (method = "main" /\ pc = "returned" /\ ~AllEntered) =>
           input_prompts.f[1] = "list"

\* C12: in a bisection called with f(lower_bound) * f(upper_bound) < 0, every
\* iteration that does not terminate leaves a bracket with a sign change of f,
\* of half the previous width, and moves the upper end exactly when
\* f(current_lower) * f(midpoint) < 0.
C12_BracketKeepsSignChange ==
    [][ ( /\ BisectionIterate
          /\ pc' = "loop"
          /\ RLt(RMul(Lambda(f_func_str, lower_bound),
                      Lambda(f_func_str, upper_bound)), Zero) ) =>
            LET mid == RDiv(RAdd(current_lower, current_upper), Rat(2))
                leftHalf == RLt(RMul(Lambda(f_func_str, current_lower),
                                     Lambda(f_func_str, mid)), Zero)
            IN  /\ RLt(RMul(Lambda(f_func_str, current_lower'),
                            Lambda(f_func_str, current_upper')), Zero)
                /\ RAbs(RSub(current_upper', current_lower'))
                       = RDiv(RAbs(RSub(current_upper, current_lower)), Rat(2))
                /\ (current_upper' = mid /\ current_lower' = current_lower)
                       <=> leftHalf
                /\ (current_lower' = mid /\ current_upper' = current_upper)
                       <=> ~leftHalf ]_vars

====
